---------------------------- MODULE Spec2Model ----------------------------
(***************************************************************************)
(* A model of throatql: the GraphQL query layer over the forum store.      *)
(*                                                                         *)
(*   - the batch resolvers (PostLoader, CommentLoader, UserLoader,         *)
(*     SubLoader) as operators over the rows the store streams back;       *)
(*   - the comment pager (Post.comments, Comment.children) and the post    *)
(*     feed (get_related_posts);                                           *)
(*   - the authorization gate (UserState) and the gated field accessors;   *)
(*   - the request-scoped Loader in front of a batch resolver.             *)
(*                                                                         *)
(* Option<T> is a sequence of length at most one, Result<T, E> a record    *)
(* with the field ok, a HashMap a function, and a HashMap's iteration      *)
(* order any order of its keys.                                            *)
(***************************************************************************)
EXTENDS Integers, Sequences, FiniteSets, TLC

VARIABLES
    \* the store
    sub_post_comment,  \* table sub_post_comment: the comment rows
    sub_post,          \* table sub_post: the post rows, in ORDER BY posted order
    public_user,       \* table public.user: the user rows
    sub,               \* table sub: the community rows
    \* collection fields
    self,              \* the entity whose collection field is resolved (a Post or a Comment)
    args,              \* the arguments of the last collection field call
    page,              \* the value the last collection field call returned
    prev,              \* the call before the last one: its arguments and its value
    walked,            \* a client's walk: its calls so far and how often it got each key
    \* batch resolvers
    batch,             \* the last BatchFn::load call: its keys, the streamed items, its map
    \* authorization gate
    user,              \* Context.user: the principal of the request
    node,              \* the entity whose field is read
    read,              \* the last field read: its name and its value
    \* Loader
    completed,         \* the cache: key -> result
    pending,           \* the keys of the outstanding batch
    returned,          \* key -> the results the load calls of that key have returned
    trips,             \* the key sets the batch resolver was called with, in order
    \* the executor in front of the Loader
    demand,            \* the keys the current wave asked for that the cache did not hold
    waves              \* the demand of each wave that reached its suspension point

storeVars == <<sub_post_comment, sub_post, public_user, sub>>
pagerVars == <<self, args, page, prev, walked>>
authVars == <<user, node, read>>
loaderVars == <<completed, pending, returned, trips, demand, waves>>

vars == <<storeVars, pagerVars, batch, authVars, loaderVars>>

(***************************************************************************)
(* Option and Result.                                                      *)
(***************************************************************************)
None == <<>>
Some(x) == <<x>>
UnwrapOr(o, d) == IF o = None THEN d ELSE o[1]

Ok(v) == [ok |-> TRUE, val |-> v]
Err(e) == [ok |-> FALSE, err |-> e]

(***************************************************************************)
(* Bounds of the model.                                                    *)
(***************************************************************************)
MaxLen == 5        \* longest list of child comment keys
MaxLimit == 3      \* largest explicit limit / count argument
MaxPosts == 4      \* most posts matching a feed
MaxRoles == 2      \* most roles a principal holds
MaxRows == 2       \* most rows of the table a batch resolver reads
MaxBatch == 2      \* most keys of one batch
MaxTrips == 4      \* most round trips of one Loader in a request
MaxCalls == 6      \* most calls of one walk over a collection

(***************************************************************************)
(* Iterator helpers, as the standard library computes them.                *)
(***************************************************************************)
Range(s) == {s[i] : i \in 1..Len(s)}

Min(a, b) == IF a < b THEN a ELSE b

\* Iterator::take(n)
Take(s, n) == SubSeq(s, 1, Min(n, Len(s)))

\* slice::last().cloned().unwrap_or_else(|| "".into())
LastOr(s, d) == IF s = <<>> THEN d ELSE s[Len(s)]

\* The duplicate-free sequences over S of length at most n.
RECURSIVE SeqsNoDup(_, _)
SeqsNoDup(S, n) ==
    IF n = 0 THEN {<<>>}
    ELSE LET shorter == SeqsNoDup(S, n - 1)
         IN  shorter \cup
                 {t \in {Append(s, x) : s \in shorter, x \in S} :
                      \A i \in 1..(Len(t) - 1) : t[i] # t[Len(t)]}

\* Every order in which a HashMap with the key set S can be iterated.
Orders(S) == {s \in SeqsNoDup(S, Cardinality(S)) : Len(s) = Cardinality(S)}

(***************************************************************************)
(* The store primitive: execute a query, stream its rows.  A stream is a   *)
(* sequence of items, each a row or the error that ended the round trip;   *)
(* the rows of a query without ORDER BY come in any order.                 *)
(***************************************************************************)
StoreErr == Err("store")

OkItems(rows) == [i \in 1..Len(rows) |-> Ok(rows[i])]

\* Every stream the store can answer with when R is the set of matching rows:
\* all rows, or some rows followed by the error that ended the stream.
StoreStreams(R) ==
    {OkItems(o) : o \in Orders(R)} \cup
        {Append(OkItems(SubSeq(o, 1, n)), StoreErr) : o \in Orders(R), n \in 0..Cardinality(R)}

\* The streams of a round trip that does not fail.
FullStreams(R) == {OkItems(o) : o \in Orders(R)}

(***************************************************************************)
(* Decoding of the delete status column (posts and comments).              *)
(***************************************************************************)
DecodeDeleteStatus(code) ==
    CASE code = Some(1) -> Ok("User")
      [] code = Some(2) -> Ok("Mod")
      [] code = Some(3) -> Ok("Admin")
      [] code = Some(0) -> Ok("Not")
      [] code = None    -> Ok("Not")
      [] OTHER          -> Err("Unknown Delete Status")

(***************************************************************************)
(* CommentLoader: the batch resolver of comments.                          *)
(***************************************************************************)
CommentKeys == {"a", "b", "c", "d", "e"}

\* One streamed item to a Comment: `comment?` passes the stream's error on,
\* and the status `match ... ?` fails the row on an unknown code.
CommentFromItem(item) ==
    IF ~item.ok THEN item
    ELSE LET row == item.val
             status == DecodeDeleteStatus(row.status)
         IN  IF ~status.ok THEN status
             ELSE Ok([cid      |-> row.cid,
                      content  |-> row.content,
                      pid      |-> row.pid,
                      uid      |-> row.uid,
                      children |-> row.children,
                      status   |-> status.val])

\* WHERE p.cid = ANY($1::text[])
CommentQuery(table, keys) == {r \in table : r.cid \in Range(keys)}

\* BatchFn::load of CommentLoader, given the items the store streamed.
CommentLoaderLoad(keys, items) ==
    LET comments == [i \in 1..Len(items) |-> CommentFromItem(items[i])]
        good == {i \in 1..Len(items) : comments[i].ok}
        \* collect() into a HashMap: a later pair replaces an earlier one
        last(k) == CHOOSE i \in good : comments[i].val.cid = k /\
                       \A j \in good : comments[j].val.cid = k => j <= i
        found == {comments[i].val.cid : i \in good}
    IN  [k \in found \cup Range(keys) |->
            IF k \in found THEN comments[last(k)]
            ELSE Err(<<"Could not find", k>>)]

(***************************************************************************)
(* Loader::load_many, as the collection fields use it: the value is a map  *)
(* from each requested key to its result (the callers read `.0`, `.1` of   *)
(* its items and `.values()`), here for a request whose cache holds none   *)
(* of the keys, so that the keys make one batch.                           *)
(***************************************************************************)
LoadManyComments(keys, items) ==
    LET map == CommentLoaderLoad(keys, items)
    IN  [k \in Range(keys) |-> map[k]]

(***************************************************************************)
(* The comment pager: Post.comments and Comment.children.                  *)
(***************************************************************************)
DefaultLimit == 25

\* A skip that falls back to the first candidate when the cursor is unknown.
SkipWhileNotCursor_UnknownFromStart(s, after) ==
    LET stops == {i \in 1..Len(s) : ~((after # "") /\ (s[i] # after))}
    IN  IF stops = {} THEN s
        ELSE SubSeq(s, CHOOSE i \in stops : \A j \in stops : i <= j, Len(s))

\* .skip_while(|cid| (after != "") && (cid != &&after))
SkipWhileNotCursor(s, after) ==
    LET stops == {i \in 1..Len(s) : ~((after # "") /\ (s[i] # after))}
    IN  IF stops = {} THEN <<>>
        ELSE SubSeq(s, CHOOSE i \in stops : \A j \in stops : i <= j, Len(s))

\* .take(limit as usize): a negative i32 becomes a huge usize
TakeUsize(s, limit) == IF limit < 0 THEN s ELSE Take(s, limit)

\* The window `page` of keys the field takes.
Window(keys, limit, after) ==
    TakeUsize(SkipWhileNotCursor(keys, UnwrapOr(after, "")), UnwrapOr(limit, DefaultLimit))

\* A Page whose has_next_page tells whether candidates remain after the window.
CommentPage_NextIfMore(keys, limit, after, comments, order) ==
    LET window == Window(keys, limit, after)
    IN  [total_count |-> Len(keys),
         page_info   |-> [has_next_page |-> (window # <<>> /\ LastOr(window, "") # LastOr(keys, "")),
                          end_cursor    |-> LastOr(window, "")],
         edges       |-> [i \in 1..Len(order) |->
                              [cursor |-> order[i], node |-> comments[order[i]]]]]

\* A Page whose total_count is the size of the window.
CommentPage_CountsWindow(keys, limit, after, comments, order) ==
    LET window == Window(keys, limit, after)
    IN  [total_count |-> Len(window),
         page_info   |-> [has_next_page |-> (Len(window) = UnwrapOr(limit, DefaultLimit)),
                          end_cursor    |-> LastOr(window, "")],
         edges       |-> [i \in 1..Len(order) |->
                              [cursor |-> order[i], node |-> comments[order[i]]]]]

\* The Page built from the window and from load_many's map, iterated in `order`.
CommentPage(keys, limit, after, comments, order) ==
    LET window == Window(keys, limit, after)
    IN  [total_count |-> Len(keys),
         page_info   |-> [has_next_page |-> (Len(window) = UnwrapOr(limit, DefaultLimit)),
                          end_cursor    |-> LastOr(window, "")],
         edges       |-> [i \in 1..Len(order) |->
                              [cursor |-> order[i], node |-> comments[order[i]]]]]

(***************************************************************************)
(* The collection fields as operations.  A behaviour is one request that   *)
(* resolves the field once: its Context and loaders are new, so the        *)
(* window's keys make one batch.                                           *)
(***************************************************************************)
NoCall == [field |-> "none"]
NoPage == [total_count |-> -1]
NoEntity == [kind |-> "none"]
NoPrev == [args |-> NoCall, page |-> NoPage]
NoWalk == [calls |-> 0]

Limits == {None} \cup {Some(n) : n \in -1..MaxLimit}
Afters == {None, Some(""), Some("zz")} \cup {Some(k) : k \in CommentKeys}

\* The parts of the state a specification leaves alone.
PagerIdle ==
    self = NoEntity /\ args = NoCall /\ page = NoPage /\ prev = NoPrev /\ walked = NoWalk
BatchIdle == batch = NoCall
AuthIdle == user = [state |-> "Anonymous"] /\ node = NoEntity /\ read = NoCall
LoaderIdle ==
    /\ completed = <<>> /\ pending = {} /\ returned = <<>> /\ trips = <<>>
    /\ demand = {} /\ waves = <<>>

\* The rows of sub_post_comment behind the collections: every child key has
\* its row (the key lists are aggregated from this table).
CommentRow(cid, status, uid) ==
    [cid |-> cid, status |-> status, uid |-> uid, pid |-> Some(1),
     content |-> Some("text"), children |-> <<>>]

PageTable ==
    {CommentRow("a", Some(0), Some("u1")), CommentRow("b", Some(1), Some("u1")),
     CommentRow("c", None, Some("u2")), CommentRow("d", Some(7), Some("u2")),
     CommentRow("e", Some(3), None)}

RowsInKeyOrder(table, keys) ==
    LET hit == SelectSeq(keys, LAMBDA k : \E r \in table : r.cid = k)
    IN  [i \in 1..Len(hit) |-> Ok(CHOOSE r \in table : r.cid = hit[i])]

\* The body shared by Post.comments (over self.comments) and Comment.children
\* (over self.children).
CollectionCall(field, limit, after) ==
    LET window == Window(self.keys, limit, after)
        \* cid is the table's key, so the resolver's map is the same for
        \* every order of the rows: one order stands for all
        items == RowsInKeyOrder(sub_post_comment, window)
    IN  \E order \in Orders(Range(window)) :
            /\ page' = CommentPage(self.keys, limit, after,
                                   LoadManyComments(window, items), order)
            /\ args' = [field |-> field, limit |-> limit, after |-> after]

\* The field called once, with any arguments.
CollectionField(field) ==
    /\ args = NoCall
    /\ \E limit \in Limits, after \in Afters : CollectionCall(field, limit, after)

PostComments ==
    /\ self.kind = "Post"
    /\ CollectionField("comments")
    /\ UNCHANGED <<storeVars, self, walked, prev, batch, authVars, loaderVars>>

CommentChildren ==
    /\ self.kind = "Comment"
    /\ CollectionField("children")
    /\ UNCHANGED <<storeVars, self, walked, prev, batch, authVars, loaderVars>>

InitPage ==
    /\ sub_post_comment = PageTable
    /\ sub_post = <<>> /\ public_user = {} /\ sub = {}
    /\ self \in [kind : {"Post", "Comment"}, keys : SeqsNoDup(CommentKeys, MaxLen)]
    /\ args = NoCall
    /\ page = NoPage
    /\ prev = NoPrev
    /\ walked = NoWalk
    /\ BatchIdle /\ AuthIdle /\ LoaderIdle

NextPage == PostComments \/ CommentChildren

SpecPage == InitPage /\ [][NextPage]_vars

(***************************************************************************)
(* Properties of the comment pager.                                        *)
(***************************************************************************)
PageCalled == args.field \in {"comments", "children"}

Cursors(p) == [i \in 1..Len(p.edges) |-> p.edges[i].cursor]

IndexOf(s, x) == CHOOSE i \in 1..Len(s) : s[i] = x

\* C1: a page requested with after = c, c at position i of the candidates and
\* limit >= 1, holds exactly the candidates at positions i+1 .. i+limit; with
\* after absent or "" it holds the first limit candidates.
C1_PaginationResume ==
    (PageCalled /\ args.limit # None /\ args.limit[1] >= 1) =>
        LET keys == self.keys
            limit == args.limit[1]
            after == UnwrapOr(args.after, "")
            i == IF after = "" THEN 0 ELSE IndexOf(keys, after)
        IN  (after = "" \/ after \in Range(keys)) =>
                /\ Range(Cursors(page)) = {keys[j] : j \in (i + 1)..Min(i + limit, Len(keys))}
                /\ Len(page.edges) = Min(i + limit, Len(keys)) - i

\* C1, the case the code takes: the page requested with after = c starts AT c.
C1_ResumeStartsAtCursor ==
    /\ PageCalled
    /\ self.keys = <<"a", "b", "c", "d", "e">>
    /\ args.limit = Some(2) /\ args.after = Some("b")
    /\ Range(Cursors(page)) = {"b", "c"}

\* C5: the edges of a comment page are in the order of the taken window.
C5_EdgesInWindowOrder ==
    PageCalled => Cursors(page) = Window(self.keys, args.limit, args.after)

\* C5, the case the code allows: the edges hold the window's keys in another order.
C5_EdgesReordered ==
    /\ PageCalled
    /\ Range(Cursors(page)) = Range(Window(self.keys, args.limit, args.after))
    /\ Cursors(page) # Window(self.keys, args.limit, args.after)

\* C11: has_next_page of a comment page is true iff the number of candidates
\* taken (the page's edges) equals the limit, 25 when the limit is absent: a
\* shorter window reports false, a last page of exactly limit items true.
C11_HasNextIffWindowFull ==
    PageCalled =>
        (page.page_info.has_next_page <=>
             Len(page.edges) = UnwrapOr(args.limit, DefaultLimit))

\* C11, its case: the last page of a collection holds exactly limit items
\* and reports a next page.
C11_FullLastPageReportsNext ==
    /\ PageCalled
    /\ self.keys = <<"a", "b", "c">> /\ args.limit = Some(2) /\ args.after = Some("b")
    /\ Len(page.edges) = 2 /\ page.page_info.end_cursor = "c"
    /\ page.page_info.has_next_page

\* C18: with after absent or "" the window starts at the first candidate;
\* with a non-empty after that is no candidate the page has no edges, its
\* end_cursor is "" and its total_count is the number of candidates.
C18_CursorEdgeCases ==
    PageCalled =>
        LET keys == self.keys
            after == UnwrapOr(args.after, "")
        IN  /\ after = "" =>
                   /\ Range(Cursors(page)) = {keys[j] : j \in 1..Len(page.edges)}
                   /\ (keys # <<>> /\ args.limit # Some(0)) => page.edges # <<>>
            /\ (after # "" /\ after \notin Range(keys)) =>
                   /\ page.edges = <<>>
                   /\ page.page_info.end_cursor = ""
                   /\ page.total_count = Len(keys)

\* C18, its case: a cursor that is no candidate of a non-empty collection.
C18_UnknownCursorEmptyPage ==
    /\ PageCalled
    /\ self.keys = <<"a", "b">> /\ args.after = Some("zz") /\ args.limit = Some(2)
    /\ page.edges = <<>> /\ page.page_info.end_cursor = "" /\ page.total_count = 2

(***************************************************************************)
(* A client walking a comment collection: the first call has no cursor,    *)
(* every further call the end_cursor of the page before, while that page   *)
(* reports a next page.                                                    *)
(***************************************************************************)
FieldOf(entity) == IF entity.kind = "Post" THEN "comments" ELSE "children"

\* How often the walk has received each key, after the page p.
Received(got, p) ==
    [k \in CommentKeys |-> got[k] + Cardinality({i \in 1..Len(p.edges) : p.edges[i].cursor = k})]

WalkStart ==
    /\ args = NoCall
    /\ \E limit \in {l \in Limits : l = None \/ l[1] >= 1} :
           CollectionCall(FieldOf(self), limit, None)
    /\ walked' = [calls |-> 1, got |-> Received([k \in CommentKeys |-> 0], page')]
    /\ prev' = [args |-> args, page |-> page]
    /\ UNCHANGED <<storeVars, self, batch, authVars, loaderVars>>

WalkNext ==
    /\ args # NoCall
    /\ page.page_info.has_next_page
    /\ walked.calls < MaxCalls
    /\ CollectionCall(FieldOf(self), args.limit, Some(page.page_info.end_cursor))
    /\ walked' = [calls |-> walked.calls + 1, got |-> Received(walked.got, page')]
    /\ prev' = [args |-> args, page |-> page]
    /\ UNCHANGED <<storeVars, self, batch, authVars, loaderVars>>

NextWalk == WalkStart \/ WalkNext

SpecWalk == InitPage /\ [][NextWalk]_vars

\* C20: a walk over a comment collection with a limit >= 1 ends after
\* finitely many calls, so it never makes the call it has just made again,
\* and when it ends (has_next_page false) it has received every candidate
\* exactly once.
C20_WalkEndsCoveringOnce ==
    (walked # NoWalk) =>
        /\ walked.calls >= 2 => args # prev.args
        /\ ~page.page_info.has_next_page =>
               \A k \in CommentKeys : walked.got[k] = (IF k \in Range(self.keys) THEN 1 ELSE 0)

\* C20, what the code does: with limit 1 the second call and the third call
\* are the same call, and it reports a next page again.
C20_WalkRepeatsCall ==
    /\ walked # NoWalk /\ walked.calls = 3
    /\ self.keys = <<"a", "b">> /\ args.limit = Some(1)
    /\ args = prev.args /\ page = prev.page
    /\ page.page_info.has_next_page

(***************************************************************************)
(* The post feed: get_related_posts, reached through Sub.posts.            *)
(***************************************************************************)
DecodePostType(code) ==
    CASE code = Some(0) -> Ok("Text")
      [] code = Some(1) -> Ok("Link")
      [] code = Some(3) -> Ok("Poll")
      [] OTHER          -> Err("Unknown Post Type")

\* One streamed item to a Post: `post?`, then the two `match ... ?`.
PostFromItem(item) ==
    IF ~item.ok THEN item
    ELSE LET row == item.val
             ptype == DecodePostType(row.ptype)
             deleted == DecodeDeleteStatus(row.deleted)
         IN  IF ~ptype.ok THEN ptype
             ELSE IF ~deleted.ok THEN deleted
             ELSE Ok([pid      |-> row.pid,
                      uid      |-> row.uid,
                      sid      |-> row.sid,
                      title    |-> row.title,
                      content  |-> row.content,
                      comments |-> UnwrapOr(row.comments, <<>>),
                      ptype    |-> ptype.val,
                      deleted  |-> deleted.val])

\* after.map(|v| v.parse().unwrap_or(0)).unwrap_or(0): the decimal string of
\* an i64, and 0 for every other string.
ParseI64(str) ==
    IF \E n \in -1..(MaxPosts + 1) : ToString(n) = str
    THEN CHOOSE n \in -1..(MaxPosts + 1) : ToString(n) = str
    ELSE 0

\* ORDER BY posted LIMIT $1 OFFSET $2 over the matching rows; the store
\* refuses a negative LIMIT or OFFSET.
LimitOffset(rows, limit, offset) ==
    IF limit < 0 \/ offset < 0 THEN <<StoreErr>>
    ELSE OkItems(SubSeq(rows, offset + 1, Min(offset + limit, Len(rows))))

\* .collect::<Result<Vec<_>, _>>()?: the first failed item fails the call.
CollectResult(results) ==
    LET bad == {i \in 1..Len(results) : ~results[i].ok}
    IN  IF bad = {} THEN Ok([i \in 1..Len(results) |-> results[i].val])
        ELSE results[CHOOSE i \in bad : \A j \in bad : i <= j]

\* get_related_posts over the matching rows; `items` is what the window
\* query streamed and `counted` what the count(*) query answered.
GetRelatedPosts(items, counted) ==
    LET edges == CollectResult(
                     [i \in 1..Len(items) |->
                         LET post == PostFromItem(items[i])
                         IN  IF ~post.ok THEN post
                             \* .enumerate(): the index within this stream
                             ELSE Ok([node |-> post.val, cursor |-> ToString(i - 1)])])
    IN  IF ~edges.ok THEN edges
        ELSE IF ~counted.ok THEN counted
        ELSE LET end_cursor == IF edges.val = <<>> THEN ""
                               ELSE edges.val[Len(edges.val)].cursor
             IN  Ok([edges       |-> edges.val,
                     total_count |-> counted.val,
                     page_info   |-> [has_next_page |-> (end_cursor # ""),
                                      end_cursor    |-> end_cursor]])

DefaultCount == 25

Counts == {None} \cup {Some(n) : n \in -1..MaxLimit}
FeedAfters == {None, Some(""), Some("x")} \cup {Some(ToString(n)) : n \in -1..MaxPosts}

\* The answers of the store to the two queries of one call: each succeeds
\* or fails.
FeedCall(count, after) ==
    LET window == LimitOffset(sub_post, UnwrapOr(count, DefaultCount),
                              IF after = None THEN 0 ELSE ParseI64(after[1]))
    IN  \E items \in {window} \cup {Append(SubSeq(window, 1, n), StoreErr) : n \in 0..Len(window)},
           counted \in {Ok(Len(sub_post)), StoreErr} :
            /\ page' = GetRelatedPosts(items, counted)
            /\ args' = [field |-> "posts", count |-> count, after |-> after]
            /\ prev' = [args |-> args, page |-> page]

\* Sub.posts, called by a client for the first time, with any arguments.
SubPosts ==
    /\ args = NoCall
    /\ \E count \in Counts, after \in FeedAfters : FeedCall(count, after)
    /\ UNCHANGED <<storeVars, self, walked, batch, authVars, loaderVars>>

\* Sub.posts, called again by the client with the same count and with the
\* cursor of an edge of the page it holds.
SubPostsResume ==
    /\ args # NoCall /\ args.field = "posts"
    /\ page.ok
    /\ \E e \in Range(page.val.edges) : FeedCall(args.count, Some(e.cursor))
    /\ UNCHANGED <<storeVars, self, walked, batch, authVars, loaderVars>>

PostRow(pid, ptype, deleted) ==
    [pid |-> pid, ptype |-> ptype, deleted |-> deleted, uid |-> Some("u1"),
     sid |-> Some("s1"), title |-> Some("title"), content |-> Some("text"),
     comments |-> None]

\* The (post type, delete status) codes a stored row takes in the model:
\* a text post, a moderator-deleted poll, a row of an unknown post type, a
\* row of an unknown delete status.
PostCodes == {<<Some(0), Some(0)>>, <<Some(3), Some(2)>>, <<Some(2), None>>, <<Some(1), Some(9)>>}

Feeds ==
    UNION {{[i \in 1..n |-> PostRow(10 + i, codes[i][1], codes[i][2])] :
                codes \in [1..n -> PostCodes]} : n \in 0..MaxPosts}

(***************************************************************************)
(* The community listing: get_subs, reached through Query.get_subs.        *)
(***************************************************************************)
DefaultSubCount == 50

\* The order of the strings of the model under the comparison of `name > $1`.
NameOrder == <<"", "ant", "bee", "cat">>

NameGreater(a, b) ==
    (CHOOSE i \in 1..Len(NameOrder) : NameOrder[i] = a) >
        (CHOOSE i \in 1..Len(NameOrder) : NameOrder[i] = b)

\* WHERE name > $1: a row without a name never matches.
SubsAfter(table, after) == {r \in table : r.name # None /\ NameGreater(r.name[1], after)}

\* LIMIT $2 without ORDER BY: the first `count` matching rows of any order;
\* the store refuses a negative LIMIT.
SubsStreams(table, count, after) ==
    IF count < 0 THEN {<<StoreErr>>}
    ELSE LET windows == {OkItems(Take(o, count)) : o \in Orders(SubsAfter(table, after))}
         IN  windows \cup
                 UNION {{Append(SubSeq(w, 1, n), StoreErr) : n \in 0..Len(w)} : w \in windows}

\* get_subs, given what the listing query streamed and the count(*) query
\* answered.
GetSubs(items, counted) ==
    LET edges == CollectResult(
                     [i \in 1..Len(items) |->
                         IF ~items[i].ok THEN items[i]
                         ELSE Ok([node |-> items[i].val,
                                  cursor |-> UnwrapOr(items[i].val.name, "")])])
    IN  IF ~edges.ok THEN edges
        ELSE IF ~counted.ok THEN counted
        ELSE LET end_cursor == IF edges.val = <<>> THEN ""
                               ELSE edges.val[Len(edges.val)].cursor
             IN  Ok([edges       |-> edges.val,
                     total_count |-> counted.val,
                     page_info   |-> [has_next_page |-> (end_cursor # ""),
                                      end_cursor    |-> end_cursor]])

SubsAfters == {None} \cup {Some(NameOrder[i]) : i \in 1..Len(NameOrder)}

\* Query.get_subs, called by a client with any arguments.
QueryGetSubs ==
    /\ args = NoCall
    /\ \E count \in Counts, after \in SubsAfters :
         \E items \in SubsStreams(sub, UnwrapOr(count, DefaultSubCount), UnwrapOr(after, "")),
            counted \in {Ok(Cardinality(sub)), StoreErr} :
             /\ page' = GetSubs(items, counted)
             /\ args' = [field |-> "subs", count |-> count, after |-> after]
             /\ prev' = [args |-> args, page |-> page]
    /\ UNCHANGED <<storeVars, self, walked, batch, authVars, loaderVars>>

\* The tables of the model: at most MaxRows rows, no two with the same key.
RECURSIVE RowSetsUpTo(_, _, _)
RowSetsUpTo(rows, key, n) ==
    IF n = 0 THEN {{}}
    ELSE LET smaller == RowSetsUpTo(rows, key, n - 1)
         IN  smaller \cup
                 {t \in {s \cup {r} : s \in smaller, r \in rows} :
                      \A r1, r2 \in t : r1[key] = r2[key] => r1 = r2}

RowSets(rows, key) == RowSetsUpTo(rows, key, MaxRows)

SubRow(sid, name) == [sid |-> sid, name |-> name, nsfw |-> FALSE, title |-> Some("title")]

\* The communities of the listing: some have no name.
SubListings ==
    RowSets({SubRow(sid, name) : sid \in {"s1", "s2", "s3"},
                                 name \in {None, Some("ant"), Some("bee"), Some("cat")}},
            "sid")

InitFeed ==
    /\ \/ sub_post \in Feeds /\ sub = {}
       \/ sub_post = <<>> /\ sub \in SubListings
    /\ sub_post_comment = {} /\ public_user = {}
    /\ PagerIdle
    /\ BatchIdle /\ AuthIdle /\ LoaderIdle

NextFeed == SubPosts \/ SubPostsResume \/ QueryGetSubs

SpecFeed == InitFeed /\ [][NextFeed]_vars

(***************************************************************************)
(* Properties of the post feed.                                            *)
(***************************************************************************)
Pids(p) == [i \in 1..Len(p.edges) |-> p.edges[i].node.pid]

FeedPids == [i \in 1..Len(sub_post) |-> sub_post[i].pid]

\* The last call resumed from the cursor of edge j of the page before it.
ResumedFrom(j) ==
    /\ prev.args # NoCall /\ prev.page.ok
    /\ args.count = prev.args.count
    /\ j \in 1..Len(prev.page.val.edges)
    /\ args.after = Some(prev.page.val.edges[j].cursor)

\* C2: a call with after = the cursor of an edge of an earlier page, and
\* count >= 1, returns the posts that follow that edge's post in the feed.
C2_FeedResumes ==
    \A j \in 1..MaxPosts :
        (ResumedFrom(j) /\ page.ok /\ UnwrapOr(args.count, DefaultCount) >= 1) =>
            LET at == IndexOf(FeedPids, prev.page.val.edges[j].node.pid)
            IN  Pids(page.val) =
                    SubSeq(FeedPids, at + 1,
                           Min(at + UnwrapOr(args.count, DefaultCount), Len(FeedPids)))

\* C2, what the code does instead: the page resumed from the end cursor of a
\* first page holds that page's last post again.
C2_ResumeRepeatsPost ==
    /\ prev.args # NoCall /\ prev.page.ok /\ page.ok
    /\ prev.page.val.edges # <<>> /\ page.val.edges # <<>>
    /\ args.after = Some(prev.page.val.page_info.end_cursor)
    /\ Pids(page.val)[1] = Pids(prev.page.val)[Len(prev.page.val.edges)]

FeedCalled == args.field \in {"posts", "subs"}

CountOf(a) == UnwrapOr(a.count, IF a.field = "posts" THEN DefaultCount ELSE DefaultSubCount)

\* C12: has_next_page of a post feed page and of a community listing page is
\* true iff the number of edges returned equals the requested count (25 for
\* post feeds, 50 for the listing, when absent).
C12_FeedHasNextIffFull ==
    (FeedCalled /\ page.ok) =>
        (page.val.page_info.has_next_page <=> Len(page.val.edges) = CountOf(args))

\* C12, what the code does: a non-empty page with fewer edges than the count
\* reports a next page.
C12_ShortPageReportsNext ==
    /\ FeedCalled /\ page.ok
    /\ page.val.edges # <<>> /\ Len(page.val.edges) < CountOf(args)
    /\ page.val.page_info.has_next_page

\* The window of the last get_related_posts call: what LIMIT / OFFSET select.
FeedWindow ==
    LimitOffset(sub_post, CountOf(args), IF args.after = None THEN 0 ELSE ParseI64(args.after[1]))

\* C14: a row with an unrecognized post type or delete status in the window
\* of get_related_posts does not fail the call: unless the store failed, the
\* call returns a Page with the other posts of the window.
C14_DecodeFailureKeepsPage ==
    (args.field = "posts" /\ page # StoreErr) =>
        LET good == SelectSeq(FeedWindow, LAMBDA item : PostFromItem(item).ok)
        IN  /\ page.ok
            /\ Pids(page.val) = [i \in 1..Len(good) |-> good[i].val.pid]

\* C14, what the code does: the window holds a good row and a bad row, and
\* the call fails with the bad row's decode error.
C14_BadRowFailsPage ==
    /\ args.field = "posts" /\ args.after = None /\ args.count = None
    /\ Len(sub_post) = 2
    /\ PostFromItem(Ok(sub_post[1])).ok /\ ~PostFromItem(Ok(sub_post[2])).ok
    /\ page = Err("Unknown Delete Status")

(***************************************************************************)
(* Every collection field of the layer, over any of the stores above.      *)
(***************************************************************************)
InitCollections == InitPage \/ InitFeed

NextCollections == NextPage \/ NextFeed

SpecCollections == InitCollections /\ [][NextCollections]_vars

\* C19: total_count is the size of the full candidate set (the comment keys
\* of the post, the children of the comment, the posts of the feed, all
\* communities) for every after and limit, and so the same in every page of
\* one collection.
C19_TotalCountIsCandidateCount ==
    /\ PageCalled => page.total_count = Len(self.keys)
    /\ (args.field = "posts" /\ page.ok) => page.val.total_count = Len(sub_post)
    /\ (args.field = "subs" /\ page.ok) => page.val.total_count = Cardinality(sub)
    /\ (args.field = "posts" /\ page.ok /\ prev.args # NoCall /\ prev.page.ok) =>
           page.val.total_count = prev.page.val.total_count

\* C19, its case: a page of one comment out of three candidates.
C19_CountExceedsPage ==
    /\ PageCalled /\ Len(self.keys) = 3
    /\ args.limit = Some(1) /\ args.after = Some(self.keys[2])
    /\ Len(page.edges) = 1 /\ page.total_count = 3

(***************************************************************************)
(* The authorization gate: UserState and its two predicates.               *)
(***************************************************************************)
Anonymous == [state |-> "Anonymous"]
LoggedIn(name, id, roles) == [state |-> "LoggedIn", name |-> name, id |-> id, roles |-> roles]

Levels == {"Owner", "Mod", "Janitor"}
Admin == <<"Admin">>
Mod(sid, level) == <<"Mod", sid, level>>

\* A gate that lets every principal holding some role through.
private_user_data_AnyRole(principal, check_id) ==
    IF principal.state = "Anonymous" THEN Err("Not Authorized")
    ELSE IF principal.id = check_id THEN Ok(<<>>)
    ELSE IF principal.roles # {} THEN Ok(<<>>)
    ELSE Err("Not Authorized")

\* UserState::private_user_data
private_user_data(principal, check_id) ==
    IF principal.state = "Anonymous" THEN Err("Not Authorized")
    ELSE IF principal.id = check_id THEN Ok(<<>>)
    ELSE IF Admin \in principal.roles THEN Ok(<<>>)
    ELSE Err("Not Authorized")

\* A gate that takes a moderator of any community for one of this community.
can_view_deleted_AnySub(principal, sub_id, author_id) ==
    IF principal.state = "Anonymous" THEN FALSE
    ELSE IF principal.id = author_id THEN TRUE
    ELSE \E role \in principal.roles : role = Admin \/ role[1] = "Mod"

\* UserState::can_view_deleted
can_view_deleted(principal, sub_id, author_id) ==
    IF principal.state = "Anonymous" THEN FALSE
    ELSE IF principal.id = author_id THEN TRUE
    ELSE \E role \in principal.roles :
             IF role = Admin THEN TRUE ELSE role[2] = sub_id

(***************************************************************************)
(* The gated field accessors of User, Post and Comment.                    *)
(***************************************************************************)
\* `ctx.user.private_user_data(&self.uid)?; Ok(value)`
Gated(principal, uid, value) ==
    LET gate == private_user_data(principal, uid)
    IN  IF gate.ok THEN Ok(value) ELSE gate

UserCryptoField(principal, u) == Gated(principal, u.uid, u.crypto)
UserEmailField(principal, u) == Gated(principal, u.uid, u.email)
UserResetsField(principal, u) == Gated(principal, u.uid, u.resets)

PostContentField(principal, p) ==
    IF p.deleted = "Not" \/ can_view_deleted(principal, UnwrapOr(p.sid, ""), UnwrapOr(p.uid, ""))
    THEN p.content
    ELSE None

PostTitleField(principal, p) == p.title

CommentContentField(principal, c) == c.content

(***************************************************************************)
(* The principals and the entities of the model.                           *)
(***************************************************************************)
Uids == {"u1", "u2"}
Sids == {"s1", "s2"}
Roles == {Admin} \cup {Mod(s, l) : s \in Sids, l \in Levels}
DeleteStatuses == {"Not", "User", "Mod", "Admin"}

Principals ==
    {Anonymous} \cup
        {LoggedIn("name", id, roles) :
             id \in Uids, roles \in {r \in SUBSET Roles : Cardinality(r) <= MaxRoles}}

\* The posts behind the comments of the model: post 11 is in s1, post 12 in s2.
AuthPosts == <<PostRow(11, Some(0), Some(0)),
               [PostRow(12, Some(0), Some(0)) EXCEPT !.sid = Some("s2")]>>

Users ==
    {[kind |-> "User", uid |-> uid, crypto |-> crypto, email |-> email, resets |-> resets] :
         uid \in Uids, crypto \in {"BCrypt", "KeyCloak"},
         email \in {None, Some("mail")}, resets \in {0, 2}}

Posts ==
    {[kind |-> "Post", pid |-> 11, uid |-> uid, sid |-> sid, title |-> title,
      content |-> content, comments |-> <<>>, ptype |-> "Text", deleted |-> deleted] :
         uid \in {None} \cup {Some(u) : u \in Uids},
         sid \in {None} \cup {Some(x) : x \in Sids},
         title \in {None, Some("title")}, content \in {None, Some("text")},
         deleted \in DeleteStatuses}

Comments ==
    {[kind |-> "Comment", cid |-> "a", uid |-> uid, pid |-> pid, content |-> content,
      children |-> <<>>, status |-> status] :
         uid \in {None} \cup {Some(u) : u \in Uids}, pid \in {None, Some(11), Some(12)},
         content \in {None, Some("text")}, status \in DeleteStatuses}

Read(name, value) ==
    /\ read' = [name |-> name, value |-> value]
    /\ UNCHANGED <<storeVars, pagerVars, batch, user, node, loaderVars>>

UserCrypto == node.kind = "User" /\ Read("crypto", UserCryptoField(user, node))
UserEmail == node.kind = "User" /\ Read("email", UserEmailField(user, node))
UserResets == node.kind = "User" /\ Read("resets", UserResetsField(user, node))
PostContent == node.kind = "Post" /\ Read("content", PostContentField(user, node))
PostTitle == node.kind = "Post" /\ Read("title", PostTitleField(user, node))
CommentContent == node.kind = "Comment" /\ Read("content", CommentContentField(user, node))

InitAuth ==
    /\ sub_post = AuthPosts
    /\ sub_post_comment = {} /\ public_user = {} /\ sub = {}
    /\ user \in Principals
    /\ node \in Users \cup Posts \cup Comments
    /\ read = NoCall
    /\ PagerIdle /\ BatchIdle /\ LoaderIdle

NextAuth ==
    \/ UserCrypto \/ UserEmail \/ UserResets
    \/ PostContent \/ PostTitle
    \/ CommentContent

SpecAuth == InitAuth /\ [][NextAuth]_vars

(***************************************************************************)
(* Properties of the authorization gate.                                   *)
(***************************************************************************)
Identified == user.state = "LoggedIn"
IsAdmin == Identified /\ Admin \in user.roles
IsAuthorOf(n) == Identified /\ n.uid = Some(user.id)
ModeratesSub(s) == Identified /\ \E l \in Levels : Mod(s, l) \in user.roles
Moderates(sid) == \E s \in Sids : sid = Some(s) /\ ModeratesSub(s)
SoftDeleted(status) == status \in {"User", "Mod", "Admin"}

\* The community of a comment: that of its post.
CommunityOf(c) ==
    IF \E i \in 1..Len(sub_post) : c.pid = Some(sub_post[i].pid)
    THEN sub_post[CHOOSE i \in 1..Len(sub_post) : c.pid = Some(sub_post[i].pid)].sid
    ELSE None

\* What the last read of a private field of the user `node` should return.
StoredField(name) ==
    CASE name = "crypto" -> node.crypto
      [] name = "email"  -> node.email
      [] name = "resets" -> node.resets

\* C7: email, resets and crypto of a User return the stored value iff the
\* principal is identified and is that user or holds Admin; every other
\* principal gets the not-authorized error.
C7_PrivateFieldGating ==
    (node.kind = "User" /\ read # NoCall) =>
        IF Identified /\ (user.id = node.uid \/ Admin \in user.roles)
        THEN read.value = Ok(StoredField(read.name))
        ELSE read.value = Err("Not Authorized")

\* C7, its case: a community moderator who is not the user is refused.
C7_ModeratorRefused ==
    /\ node.kind = "User" /\ read # NoCall /\ read.name = "email"
    /\ Identified /\ user.id # node.uid /\ user.roles # {} /\ Admin \notin user.roles
    /\ node.email # None
    /\ ~read.value.ok

\* C8: the content of a soft-deleted post is returned iff the viewer is its
\* author, an admin, or a moderator of the post's community; a post that is
\* not deleted shows its content to everyone.
C8_PostContentRedaction ==
    (node.kind = "Post" /\ read # NoCall /\ read.name = "content") =>
        IF SoftDeleted(node.deleted)
        THEN IF IsAuthorOf(node) \/ IsAdmin \/ Moderates(node.sid)
             THEN read.value = node.content
             ELSE read.value = None
        ELSE read.value = node.content

\* C8, its case: a janitor of the post's community, who is not the author,
\* reads the content of a deleted post, and a moderator of another community
\* does not.
C8_ModeratorSeesDeleted ==
    /\ node.kind = "Post" /\ read # NoCall /\ read.name = "content"
    /\ SoftDeleted(node.deleted) /\ node.content # None
    /\ Identified /\ ~IsAuthorOf(node) /\ user.roles = {Mod("s1", "Janitor")}
    /\ node.sid = Some("s1")
    /\ read.value = node.content

\* C9: the title of a soft-deleted post is returned to no viewer who is
\* neither the author, nor an admin, nor a moderator of the post's community.
C9_PostTitleRedaction ==
    (/\ node.kind = "Post" /\ read # NoCall /\ read.name = "title"
     /\ SoftDeleted(node.deleted)
     /\ ~(IsAuthorOf(node) \/ IsAdmin \/ Moderates(node.sid))) =>
        read.value = None

\* C9, what the code does: an anonymous viewer reads a deleted post's title.
C9_AnonymousReadsTitle ==
    /\ node.kind = "Post" /\ read # NoCall /\ read.name = "title"
    /\ SoftDeleted(node.deleted) /\ user = Anonymous
    /\ read.value = Some("title")

\* C10: the content of a soft-deleted comment is returned to no viewer who is
\* neither its author, nor an admin, nor a moderator of its community.
C10_CommentContentRedaction ==
    (/\ node.kind = "Comment" /\ read # NoCall /\ read.name = "content"
     /\ SoftDeleted(node.status)
     /\ ~(IsAuthorOf(node) \/ IsAdmin \/ Moderates(CommunityOf(node)))) =>
        read.value = None

\* C10, what the code does: an anonymous viewer reads a deleted comment.
C10_AnonymousReadsComment ==
    /\ node.kind = "Comment" /\ read # NoCall /\ read.name = "content"
    /\ SoftDeleted(node.status) /\ user = Anonymous
    /\ read.value = Some("text")

(***************************************************************************)
(* The batch resolvers of posts, users and communities.                    *)
(***************************************************************************)
\* The last of the items at the positions `hits`: a later insert into a
\* HashMap replaces an earlier one under the same key.
LastGood(entities, hits) == entities[CHOOSE i \in hits : \A j \in hits : j <= i]

\* WHERE pid = ANY($1)
PostQuery(table, ids) == {r \in Range(table) : r.pid \in Range(ids)}

\* BatchFn::load of PostLoader that collects its rows into one Result, so
\* that one bad row fails every key.
PostLoaderLoad_AbortOnBadRow(ids, items) ==
    LET posts == [i \in 1..Len(items) |-> PostFromItem(items[i])]
        found == {posts[i].val.pid : i \in {j \in 1..Len(items) : posts[j].ok}}
    IN  IF \E i \in 1..Len(posts) : ~posts[i].ok
        THEN [id \in Range(ids) |-> Err(<<"Post not found", id>>)]
        ELSE [id \in found \cup Range(ids) |->
                 IF id \in found
                 THEN LastGood(posts, {i \in 1..Len(posts) : posts[i].ok /\ posts[i].val.pid = id})
                 ELSE Err(<<"Post not found", id>>)]

\* BatchFn::load of PostLoader without its last loop over the ids.
PostLoaderLoad_NoFill(ids, items) ==
    LET posts == [i \in 1..Len(items) |-> PostFromItem(items[i])]
        found == {posts[i].val.pid : i \in {j \in 1..Len(items) : posts[j].ok}}
    IN  [id \in found |->
            LastGood(posts, {i \in 1..Len(posts) : posts[i].ok /\ posts[i].val.pid = id})]

\* BatchFn::load of PostLoader, given the items the store streamed.
PostLoaderLoad(ids, items) ==
    LET posts == [i \in 1..Len(items) |-> PostFromItem(items[i])]
        found == {posts[i].val.pid : i \in {j \in 1..Len(items) : posts[j].ok}}
    IN  [id \in found \cup Range(ids) |->
            IF id \in found
            THEN LastGood(posts, {i \in 1..Len(posts) : posts[i].ok /\ posts[i].val.pid = id})
            ELSE Err(<<"Post not found", id>>)]

\* str::to_lowercase, and the folding under which UniCase compares and hashes.
Lower(str) ==
    CASE str = "Bob" -> "bob"
      [] str = "BOB" -> "bob"
      [] str = "U2"  -> "u2"
      [] str = "S2"  -> "s2"
      [] str = "Eve" -> "eve"
      [] OTHER       -> str

\* A HashMap keyed by UniCase<String> holds one entry per folded key.
UniCase(str) == Lower(str)

DecodeCrypto(code) ==
    CASE code = 1 -> Ok("BCrypt")
      [] code = 2 -> Ok("KeyCloak")
      [] OTHER    -> Err("Unable to deal with crypto")

DecodeUserStatus(code) ==
    CASE code = 0  -> Ok("Ok")
      [] code = 10 -> Ok("Deleted")
      [] code = 5  -> Ok("SiteBan")
      [] OTHER     -> Err("Unable to deal with status")

UserFromItem(item) ==
    IF ~item.ok THEN item
    ELSE LET row == item.val
             crypto == DecodeCrypto(row.crypto)
             status == DecodeUserStatus(row.status)
         IN  IF ~crypto.ok THEN crypto
             ELSE IF ~status.ok THEN status
             ELSE Ok([uid |-> row.uid, name |-> row.name, email |-> row.email,
                      resets |-> row.resets, crypto |-> crypto.val, status |-> status.val])

\* WHERE uid = ANY($1) OR lower(name) = ANY($1), $1 the lowercased keys
UserQuery(table, keys) ==
    LET lowered == {Lower(k) : k \in Range(keys)}
    IN  {r \in table : r.uid \in lowered \/ (r.name # None /\ Lower(r.name[1]) \in lowered)}

\* BatchFn::load of UserLoader: every good row goes into the map under its
\* uid and, when it has one, under its name.
UserLoaderLoad(keys, items) ==
    LET users == [i \in 1..Len(items) |-> UserFromItem(items[i])]
        good == {i \in 1..Len(items) : users[i].ok}
        under(u) == {UniCase(u.uid)} \cup (IF u.name = None THEN {} ELSE {UniCase(u.name[1])})
        found == UNION {under(users[i].val) : i \in good}
    IN  [k \in found \cup {UniCase(key) : key \in Range(keys)} |->
            IF k \in found THEN LastGood(users, {i \in good : k \in under(users[i].val)})
            ELSE Err(<<"user not found", k>>)]

\* WHERE lower(name) in (select lower(x) FROM unnest($1) x) OR sid = ANY($1)
SubQuery(table, keys) ==
    {r \in table : \/ r.name # None /\ Lower(r.name[1]) \in {Lower(k) : k \in Range(keys)}
                   \/ r.sid \in Range(keys)}

\* BatchFn::load of SubLoader: query_as! builds the Sub, no code is decoded.
SubLoaderLoad(keys, items) ==
    LET good == {i \in 1..Len(items) : items[i].ok}
        under(v) == {UniCase(v.sid)} \cup (IF v.name = None THEN {} ELSE {UniCase(v.name[1])})
        found == UNION {under(items[i].val) : i \in good}
    IN  [k \in found \cup {UniCase(key) : key \in Range(keys)} |->
            IF k \in found THEN LastGood(items, {i \in good : k \in under(items[i].val)})
            ELSE Err(<<"Could not find", k>>)]

(***************************************************************************)
(* One batch: the resolver of a kind is called with keys, the store        *)
(* streams the matching rows in some order, or fails on the way.           *)
(***************************************************************************)
KeySeqs(S) == SeqsNoDup(S, MaxBatch)

PostTables == UNION {{[i \in 1..n |-> PostRow(10 + i, codes[i][1], codes[i][2])] :
                          codes \in [1..n -> PostCodes]} : n \in 0..MaxRows}

CommentTables ==
    RowSets({CommentRow(cid, status, Some("u1")) :
                 cid \in {"a", "b", "c"}, status \in {Some(0), None, Some(2), Some(7)}},
            "cid")

UserRow(uid, name, crypto, status) ==
    [uid |-> uid, name |-> name, crypto |-> crypto, status |-> status,
     email |-> Some("mail"), resets |-> 0]

\* The (crypto, status) codes of a stored user: two known pairs, an unknown
\* crypto code, an unknown status code.
UserCodes == {<<1, 0>>, <<2, 10>>, <<3, 0>>, <<1, 7>>}

\* A display name may be spelled like the id of another row ("U2", "S2").
UserTables ==
    RowSets({UserRow(uid, name, codes[1], codes[2]) :
                 uid \in Uids, name \in {None, Some("Bob"), Some("U2")}, codes \in UserCodes},
            "uid")

SubTables ==
    RowSets({SubRow(sid, name) : sid \in Sids, name \in {None, Some("Bob"), Some("S2")}},
            "sid")

PostKeys == {11, 12, 13, 99}
UserKeys == {"u1", "u2", "U2", "bob", "BOB", "zed"}
SubKeys == {"s1", "s2", "S2", "bob", "BOB", "zed"}

Batch(kind, keys, items, map) ==
    /\ batch' = [kind |-> kind, keys |-> keys, items |-> items, map |-> map]
    /\ UNCHANGED <<storeVars, pagerVars, authVars, loaderVars>>

PostBatch ==
    /\ batch = NoCall
    /\ \E ids \in KeySeqs(PostKeys) : \E items \in StoreStreams(PostQuery(sub_post, ids)) :
           Batch("post", ids, items, PostLoaderLoad(ids, items))

CommentBatch ==
    /\ batch = NoCall
    /\ \E keys \in KeySeqs({"a", "b", "c", "zz"}) :
           \E items \in StoreStreams(CommentQuery(sub_post_comment, keys)) :
               Batch("comment", keys, items, CommentLoaderLoad(keys, items))

UserBatch ==
    /\ batch = NoCall
    /\ \E keys \in KeySeqs(UserKeys) : \E items \in StoreStreams(UserQuery(public_user, keys)) :
           Batch("user", keys, items, UserLoaderLoad(keys, items))

SubBatch ==
    /\ batch = NoCall
    /\ \E keys \in KeySeqs(SubKeys) : \E items \in StoreStreams(SubQuery(sub, keys)) :
           Batch("sub", keys, items, SubLoaderLoad(keys, items))

InitBatch ==
    /\ \/ sub_post \in PostTables /\ sub_post_comment = {} /\ public_user = {} /\ sub = {}
       \/ sub_post = <<>> /\ sub_post_comment \in CommentTables /\ public_user = {} /\ sub = {}
       \/ sub_post = <<>> /\ sub_post_comment = {} /\ public_user \in UserTables /\ sub = {}
       \/ sub_post = <<>> /\ sub_post_comment = {} /\ public_user = {} /\ sub \in SubTables
    /\ batch = NoCall
    /\ PagerIdle /\ AuthIdle /\ LoaderIdle

NextBatch == PostBatch \/ CommentBatch \/ UserBatch \/ SubBatch

SpecBatch == InitBatch /\ [][NextBatch]_vars

(***************************************************************************)
(* Properties of the batch resolvers.                                      *)
(***************************************************************************)
\* The key under which the map of a kind holds a requested key.
MapKey(kind, key) == IF kind \in {"user", "sub"} THEN UniCase(key) ELSE key

\* The table a kind reads.
TableOf(kind) ==
    CASE kind = "post"    -> Range(sub_post)
      [] kind = "comment" -> sub_post_comment
      [] kind = "user"    -> public_user
      [] kind = "sub"     -> sub

\* A row, or the entity built from it, is addressed by a key: by its id, or
\* (users and communities) by its name in any letter case.
Addresses(kind, e, key) ==
    CASE kind = "post"    -> e.pid = key
      [] kind = "comment" -> e.cid = key
      [] kind = "user"    -> Lower(e.uid) = Lower(key) \/
                             (e.name # None /\ Lower(e.name[1]) = Lower(key))
      [] kind = "sub"     -> Lower(e.sid) = Lower(key) \/
                             (e.name # None /\ Lower(e.name[1]) = Lower(key))

\* The entity the resolver builds from a streamed item.
EntityOf(kind, item) ==
    CASE kind = "post"    -> PostFromItem(item)
      [] kind = "comment" -> CommentFromItem(item)
      [] kind = "user"    -> UserFromItem(item)
      [] kind = "sub"     -> item

\* C6: the map of one batch covers every requested key; a key that no row
\* of the table matches resolves to a not-found failure; and a key whose row
\* was streamed and decoded resolves to that entity, whatever the other keys
\* of the batch are.
C6_NegativeResultSynthesis ==
    (batch # NoCall) =>
        \A key \in Range(batch.keys) :
            LET k == MapKey(batch.kind, key)
            IN  /\ k \in DOMAIN batch.map
                /\ (\A r \in TableOf(batch.kind) : ~Addresses(batch.kind, r, key)) =>
                       /\ ~batch.map[k].ok
                       /\ batch.map[k].err[2] = k
                /\ (\E i \in 1..Len(batch.items) :
                        /\ EntityOf(batch.kind, batch.items[i]).ok
                        /\ Addresses(batch.kind, EntityOf(batch.kind, batch.items[i]).val, key)) =>
                       /\ batch.map[k].ok
                       /\ Addresses(batch.kind, batch.map[k].val, key)

\* C6, its case: a batch of a stored key and a missing key resolves the
\* first to its entity and the second to a failure.
C6_MissingKeyBesideFoundKey ==
    /\ batch # NoCall /\ batch.kind = "post" /\ batch.keys = <<99, 11>>
    /\ batch.map[11].ok /\ batch.map[11].val.pid = 11
    /\ ~batch.map[99].ok

\* The round trip of the last batch did not fail.
RoundTripOk == \A i \in 1..Len(batch.items) : batch.items[i].ok

\* The streamed rows of the last batch that carry an unrecognized code.
BadRows == {i \in 1..Len(batch.items) : batch.items[i].ok /\ ~EntityOf(batch.kind, batch.items[i]).ok}

GoodRows == {i \in 1..Len(batch.items) : EntityOf(batch.kind, batch.items[i]).ok}

\* C13: when exactly one matching row of a post, comment or user batch
\* carries an unrecognized code, every requested key that a well-formed row
\* answers resolves to that entity, and only the key of the bad row resolves
\* to a failure.
C13_DecodeIsolation ==
    (batch # NoCall /\ batch.kind \in {"post", "comment", "user"}
        /\ RoundTripOk /\ Cardinality(BadRows) = 1) =>
        \A key \in Range(batch.keys) :
            LET k == MapKey(batch.kind, key)
                answers == {i \in GoodRows : Addresses(batch.kind, batch.items[i].val, key)}
            IN  /\ k \in DOMAIN batch.map
                /\ answers # {} =>
                       /\ batch.map[k].ok
                       /\ \E i \in answers : batch.map[k] = EntityOf(batch.kind, batch.items[i])
                /\ answers = {} => ~batch.map[k].ok

\* C13, its case: a batch of two post keys, the row of one has an unknown
\* post type; the other resolves to its post.
C13_BadRowBesideGoodRow ==
    /\ batch # NoCall /\ batch.kind = "post" /\ RoundTripOk
    /\ Cardinality(BadRows) = 1 /\ Cardinality(GoodRows) = 1
    /\ Len(batch.keys) = 2
    /\ \E k1, k2 \in Range(batch.keys) : batch.map[k1].ok /\ ~batch.map[k2].ok

\* C15: when the round trip of a batch fails, before any row or after some
\* rows, every key of the batch resolves to the store's error, none to an
\* entity nor to a not-found failure.
C15_StoreFailureBatchWide ==
    (batch # NoCall /\ ~RoundTripOk) =>
        \A key \in Range(batch.keys) : batch.map[MapKey(batch.kind, key)] = StoreErr

\* C15, what the code does: the round trip fails after one row; that row's
\* key resolves to its entity and the other key to a not-found failure.
C15_FailedTripYieldsEntity ==
    /\ batch # NoCall /\ batch.kind = "comment" /\ batch.keys = <<"a", "b">>
    /\ Len(batch.items) = 2 /\ batch.items[1].ok /\ batch.items[2] = StoreErr
    /\ batch.map["a"].ok
    /\ batch.map["b"] = Err(<<"Could not find", "b">>)

\* The id of a user or community row.
IdOf(kind, r) == IF kind = "user" THEN r.uid ELSE r.sid

\* The row is the only one of its table with its display name, in any
\* letter case.
NameIsOwn(kind, r) ==
    \A q \in TableOf(kind) :
        (q.name # None /\ r.name # None /\ Lower(q.name[1]) = Lower(r.name[1])) => q = r

\* C17: in a user or community batch whose round trip did not fail and whose
\* rows all decode, a key that is the id of a stored row, or its display
\* name in any letter case, resolves to that row's entity; and the map holds
\* the entity of every streamed row under its id and under its name.
C17_NameAddressableLookup ==
    (batch # NoCall /\ batch.kind \in {"user", "sub"} /\ RoundTripOk /\ BadRows = {}) =>
        \A r \in {q \in TableOf(batch.kind) : NameIsOwn(batch.kind, q)} :
            LET entity == EntityOf(batch.kind, Ok(r))
                id == UniCase(IdOf(batch.kind, r))
            IN  /\ \A key \in Range(batch.keys) :
                       (key = IdOf(batch.kind, r) \/
                        (r.name # None /\ Lower(key) = Lower(r.name[1]))) =>
                           batch.map[MapKey(batch.kind, key)] = entity
                /\ (\E i \in 1..Len(batch.items) : batch.items[i].val = r) =>
                       /\ id \in DOMAIN batch.map /\ batch.map[id] = entity
                       /\ r.name # None =>
                              /\ UniCase(r.name[1]) \in DOMAIN batch.map
                              /\ batch.map[UniCase(r.name[1])] = entity

\* C17, what the code does: the user u2 is loaded by its id, and the map
\* answers with the user u1, whose display name is spelled like that id.
C17_IdKeyHoldsOtherEntity ==
    /\ batch # NoCall /\ batch.kind = "user" /\ RoundTripOk /\ BadRows = {}
    /\ batch.keys = <<"u2">>
    /\ \E r \in public_user : r.uid = "u2"
    /\ batch.map["u2"].ok /\ batch.map["u2"].val.uid = "u1"

\* The map the resolver of a name-addressable kind builds from a stream.
ResolverOf(kind, keys, items) ==
    IF kind = "user" THEN UserLoaderLoad(keys, items) ELSE SubLoaderLoad(keys, items)

\* The rows the store streamed in the last batch.
StreamedRows == {batch.items[i].val : i \in {j \in 1..Len(batch.items) : batch.items[j].ok}}

\* C21: in a user or community batch the result of a requested key depends
\* only on the key and the store contents: had the store streamed the same
\* rows in any other order, the key would have resolved to the same result,
\* also when a row's display name is spelled like another row's id.
C21_LookupDeterministic ==
    (batch # NoCall /\ batch.kind \in {"user", "sub"} /\ RoundTripOk
        /\ \A r \in TableOf(batch.kind) : NameIsOwn(batch.kind, r)) =>
        \A other \in FullStreams(StreamedRows) :
            \A key \in Range(batch.keys) :
                ResolverOf(batch.kind, batch.keys, other)[MapKey(batch.kind, key)] =
                    batch.map[MapKey(batch.kind, key)]

\* C21, what the code does: the community s1 is named "S2"; the key "s2"
\* resolves to s2 when s1 is streamed first, and would resolve to s1 had
\* s2 been streamed first.
C21_AnswerFollowsStreamOrder ==
    /\ batch # NoCall /\ batch.kind = "sub" /\ RoundTripOk
    /\ batch.keys = <<"s2">>
    /\ batch.items = <<Ok(SubRow("s1", Some("S2"))), Ok(SubRow("s2", None))>>
    /\ batch.map["s2"] = Ok(SubRow("s2", None))
    /\ SubLoaderLoad(batch.keys, <<batch.items[2], batch.items[1]>>)["s2"] = Ok(SubRow("s1", Some("S2")))

(***************************************************************************)
(* Principal resolution: the `user` filter of main and UserState::login.   *)
(* In this part public_user holds the rows of the login query: a user      *)
(* joined with its admin flag and its moderated communities.               *)
(***************************************************************************)
\* decode::<Claims>(jwt, key, Validation::new(RS256)): the claims of a token
\* whose signature verifies and that has not expired.  The key is that of a
\* deployment whose PUB_KEY holds an RSA public key (DECODING_KEY is Ok).
DecodeJwt(jwt) ==
    IF jwt.verifies /\ ~jwt.expired
    THEN Ok([preferred_username |-> jwt.preferred_username])
    ELSE Err("InvalidToken")

\* match level { 0 => Owner, 1 => Mod, _ => Janitor }
LevelOf(code) == IF code = 0 THEN "Owner" ELSE IF code = 1 THEN "Mod" ELSE "Janitor"

\* The roles built from the row: subs zipped with level, then Admin.
RolesOf(row) ==
    LET subs == UnwrapOr(row.subs, <<>>)
        level == UnwrapOr(row.level, <<>>)
    IN  {Mod(subs[i], LevelOf(level[i])) : i \in 1..Min(Len(subs), Len(level))}
            \cup (IF row.admin # None THEN {Admin} ELSE {})

\* WHERE lower(name) = $1
LoginQuery(table, username) == {r \in table : r.name # None /\ Lower(r.name[1]) = username}

\* fetch_one: the first row of the answer, or an error when the round trip
\* fails or no row matches.
FetchOne(R) == {StoreErr} \cup (IF R = {} THEN {Err("RowNotFound")} ELSE {Ok(r) : r \in R})

\* A login that trusts the claims of a token that did not verify.
login_Unverified(jwt, found) ==
    IF found.ok
    THEN LoggedIn(UnwrapOr(found.val.name, ""), found.val.uid, RolesOf(found.val))
    ELSE Anonymous

\* UserState::login, given what fetch_one answers.
login(jwt, found) ==
    IF DecodeJwt(jwt).ok
    THEN IF found.ok
         THEN LoggedIn(UnwrapOr(found.val.name, ""), found.val.uid, RolesOf(found.val))
         ELSE Anonymous
    ELSE Anonymous

Jwts == [verifies : BOOLEAN, expired : BOOLEAN, preferred_username : {"bob", "Bob", "zed"}]

Headers == {None} \cup {Some(jwt) : jwt \in Jwts}

\* The `user` filter: header("authorization") mapped through login, or
\* anonymous() when the header is missing; then Context::new(user, pool).
UserFilter ==
    /\ args = NoCall
    /\ \E authorization \in Headers :
         IF authorization = None
         THEN /\ user' = Anonymous
              /\ args' = [field |-> "login", authorization |-> authorization, found |-> None]
         ELSE \E found \in FetchOne(LoginQuery(public_user, authorization[1].preferred_username)) :
                  /\ user' = login(authorization[1], found)
                  /\ args' = [field |-> "login", authorization |-> authorization,
                              found |-> Some(found)]
    /\ UNCHANGED <<storeVars, self, walked, page, prev, batch, node, read, loaderVars>>

LoginRow(uid, name, admin, mods) ==
    [uid |-> uid, name |-> name, admin |-> admin, subs |-> mods[1], level |-> mods[2]]

LoginTables ==
    RowSets({LoginRow(uid, name, admin, mods) :
                 uid \in Uids, name \in {None, Some("Bob"), Some("bob")},
                 admin \in {None, Some(1)},
                 mods \in {<<None, None>>, <<Some(<<"s1">>), Some(<<0>>)>>,
                           <<Some(<<"s1", "s2">>), Some(<<1, 7>>)>>}},
            "uid")

InitLogin ==
    /\ public_user \in LoginTables
    /\ sub_post = <<>> /\ sub_post_comment = {} /\ sub = {}
    /\ PagerIdle /\ BatchIdle /\ AuthIdle /\ LoaderIdle

NextLogin == UserFilter

SpecLogin == InitLogin /\ [][NextLogin]_vars

(***************************************************************************)
(* Properties of principal resolution.                                     *)
(***************************************************************************)
\* The request carried a credential that verifies and has not expired.
Verified ==
    /\ args.authorization # None
    /\ args.authorization[1].verifies /\ ~args.authorization[1].expired

\* The store lookup of the request answered with a user row.
UserFound == args.found # None /\ args.found[1].ok

LoaderKeys == {"a", "b", "zz"}

\* load / load_many that forget the keys already outstanding.
LoaderPend_Overwrite(cache, outstanding, keys) ==
    IF Range(keys) \subseteq DOMAIN cache THEN outstanding
    ELSE Range(keys) \ DOMAIN cache

\* load / load_many that do not look into the cache.
LoaderPend_NoCache(cache, outstanding, keys) == outstanding \cup Range(keys)

\* load / load_many: the outstanding batch after a call for `keys`.
LoaderPend(cache, outstanding, keys) == outstanding \cup (Range(keys) \ DOMAIN cache)

\* The cache after the batch of `outstanding` keys came back with `map`.
LoaderComplete(cache, outstanding, map) ==
    [k \in DOMAIN cache \cup outstanding |->
        IF k \in DOMAIN cache THEN cache[k]
        ELSE IF k \in DOMAIN map THEN map[k]
        ELSE Err(<<"not found", k>>)]

\* The results a call for `keys` gets at once, from the cache.
Hits(cache, keys) == [k \in LoaderKeys |->
                         IF k \in Range(keys) /\ k \in DOMAIN cache THEN {cache[k]} ELSE {}]

LoaderCall(keys) ==
    /\ pending' = LoaderPend(completed, pending, keys)
    /\ demand' = demand \cup (Range(keys) \ DOMAIN completed)
    /\ returned' = [k \in LoaderKeys |-> returned[k] \cup Hits(completed, keys)[k]]
    /\ UNCHANGED <<completed, trips, waves>>
    /\ UNCHANGED <<storeVars, pagerVars, batch, authVars>>

\* A field resolution calls comment_loader.load(key) (Query.get_comment).
Load == \E key \in LoaderKeys : LoaderCall(<<key>>)

\* A field resolution calls comment_loader.load_many(keys) (Post.comments).
LoadMany == \E keys \in [1..2 -> LoaderKeys] : LoaderCall(keys)

\* The wave reaches its suspension point: the outstanding batch is resolved
\* in one round trip and every waiting call whose key it resolved gets its
\* result.
Dispatch ==
    /\ pending # {}
    /\ Len(trips) < MaxTrips
    /\ LET keys == CHOOSE seq \in Orders(pending) : TRUE
       IN  \E items \in StoreStreams(CommentQuery(sub_post_comment, keys)) :
               /\ completed' = LoaderComplete(completed, pending, CommentLoaderLoad(keys, items))
               /\ trips' = Append(trips, pending)
    /\ returned' = [k \in LoaderKeys |->
                       returned[k] \cup (IF k \in demand /\ k \in DOMAIN completed'
                                          THEN {completed'[k]} ELSE {})]
    /\ waves' = Append(waves, demand)
    /\ pending' = {}
    /\ demand' = {}
    /\ UNCHANGED <<storeVars, pagerVars, batch, authVars>>

InitLoader ==
    /\ sub_post_comment \in CommentTables
    /\ sub_post = <<>> /\ public_user = {} /\ sub = {}
    /\ completed = <<>> /\ pending = {} /\ trips = <<>>
    /\ returned = [k \in LoaderKeys |-> {}]
    /\ demand = {} /\ waves = <<>>
    /\ PagerIdle /\ BatchIdle /\ AuthIdle

NextLoader == Load \/ LoadMany \/ Dispatch

SpecLoader == InitLoader /\ [][NextLoader]_vars

(***************************************************************************)
(* Properties of the Loader.                                               *)
(***************************************************************************)
\* C3: the N distinct keys a wave asks for go to the batch resolver in
\* exactly one call, whose key argument holds all N of them.
C3_BatchCoalescing ==
    /\ Len(trips) = Len(waves)
    /\ \A i \in 1..Len(trips) : trips[i] = waves[i]

\* C3, its case: a wave of three loads of three distinct keys made one call.
C3_ThreeKeysOneTrip ==
    /\ Len(trips) = 1 /\ Cardinality(waves[1]) = 3
    /\ trips[1] = LoaderKeys

OneResultPerKey == \A k \in LoaderKeys : Cardinality(returned[k]) <= 1

OneTripPerKey == \A k \in LoaderKeys : Cardinality({i \in 1..Len(trips) : k \in trips[i]}) <= 1

CacheWriteOnce ==
    \A k \in DOMAIN completed : k \in DOMAIN completed' /\ completed'[k] = completed[k]

\* C4: every load of a key returns the same result, a cache entry once
\* written is never changed nor evicted, and a key takes at most one round
\* trip.
C4_CacheCoherence == [](OneResultPerKey /\ OneTripPerKey) /\ [][CacheWriteOnce]_vars

\* C4, its case: a key was loaded before and after its batch resolved, in
\* two waves, and both loads returned one result.
C4_LoadedTwice ==
    /\ Len(trips) = 2 /\ "a" \in trips[1] /\ "a" \in DOMAIN completed
    /\ returned["a"] = {completed["a"]} /\ returned["b"] # {}

=============================================================================
